---------------------------- MODULE Spec2Model ----------------------------
(***************************************************************************)
(* koila: lazy tensors.  A model of the shape algebra (koila/shapes.py)    *)
(* and of the deferred-evaluation graph (koila/tensors.py).                *)
(*                                                                         *)
(* Two specifications:                                                     *)
(*   SpecShapes  the pure shape functions applied to bounded shape tuples; *)
(*   Spec        the lazy graph: construction of lazy values, operators,   *)
(*               name resolution, run, batch.                              *)
(***************************************************************************)
EXTENDS Integers, Sequences, FiniteSets, TLC

VARIABLES
    shcall,   \* SpecShapes: the last call of a shape function and its outcome
    grad,     \* torch.is_grad_enabled()
    lts,      \* the LazyTensor objects constructed so far (index = identity)
    nodes,    \* the Evaluation objects constructed so far (index = identity)
    last      \* the last operation invoked and its outcome

vars == <<shcall, grad, lts, nodes, last>>

(***************************************************************************)
(* Bounds of the model.                                                    *)
(***************************************************************************)
MaxRank == 3          \* SpecShapes: longest shape tuple drawn
MaxDim == 3           \* SpecShapes: largest dimension size drawn
MaxLazy == 3          \* Spec: LazyTensor objects constructed
MaxNodes == 2         \* Spec: Evaluation objects constructed
RecursionLimit == 2   \* Spec: nested re-dispatches before the interpreter gives up

(***************************************************************************)
(* Python helpers.                                                         *)
(***************************************************************************)
Abs(n) == IF n < 0 THEN -n ELSE n
Max(a, b) == IF a >= b THEN a ELSE b
Min(a, b) == IF a <= b THEN a ELSE b

\* (1,) * n
Ones(n) == [i \in 1..n |-> 1]

\* The outcome of a shape function: a tuple, the absence value None, or a
\* raised exception.
ShapeOk(v) == [err |-> "", v |-> v]
ShapeNone == [err |-> "None", v |-> <<>>]
ShapeRaise(e) == [err |-> e, v |-> <<>>]

\* `tuple == int` in Python: a tuple never equals an integer.
TupleEqualsInt(t, n) == FALSE

(***************************************************************************)
(* koila/shapes.py                                                         *)
(***************************************************************************)
compatible(input, other, broadcast) ==
    IF broadcast
    THEN input = 1 \/ other = 1 \/ input = other
    ELSE input = other

prepends(input, other) ==
    LET li == Len(input)
        lo == Len(other)
        prepended == Ones(Abs(li - lo))
    IN  IF li >= lo
        THEN <<input, prepended \o other>>
        ELSE <<prepended \o input, other>>

\* The loop of coerce: the first pair that is non-positive raises, the first
\* that is incompatible returns None, whichever comes first.
coerce(input, other, broadcast, scalars) ==
    IF scalars /\ Len(input) = 0 THEN ShapeOk(other)
    ELSE IF scalars /\ Len(other) = 0 THEN ShapeOk(input)
    ELSE IF Len(input) # Len(other) THEN ShapeNone
    ELSE IF ~broadcast
         THEN IF input = other THEN ShapeOk(input) ELSE ShapeNone
    ELSE LET p == prepends(input, other)
             a == p[1]
             b == p[2]
             n == Len(a)
             nonpos(i) == a[i] <= 0 \/ b[i] <= 0
             stops(i) == nonpos(i) \/ ~compatible(a[i], b[i], TRUE)
             first == IF \E i \in 1..n : stops(i)
                      THEN CHOOSE i \in 1..n :
                               stops(i) /\ \A j \in 1..(i - 1) : ~stops(j)
                      ELSE 0
         IN  IF first = 0 THEN ShapeOk([i \in 1..n |-> Max(a[i], b[i])])
             ELSE IF nonpos(first) THEN ShapeRaise("ValueError")
             ELSE ShapeNone

identity(input) == ShapeOk(input)

symmetric(input, other) ==
    LET shape == coerce(input, other, TRUE, TRUE)
    IN  IF shape.err = "None" THEN ShapeRaise("ValueError") ELSE shape

\* reduce_dims(input, dim, keepdim).  dim is the tuple of the axes named; an
\* int dim is the tuple of length one (both become the set dimensions).  The
\* loop runs over the elements of input, the sizes: each size that is in
\* dimensions appends 1 when keepdim, and nothing else is appended.
reduce_dims(input, dim, keepdim) ==
    LET dimensions == {dim[i] : i \in DOMAIN dim}
        appended == IF keepdim
                    THEN Cardinality({i \in DOMAIN input : input[i] \in dimensions})
                    ELSE 0
    IN  IF keepdim /\ appended # Len(input) THEN ShapeRaise("AssertionError")
        ELSE ShapeOk(Ones(appended))

\* tuple(range(len(input)))
range(n) == [i \in 1..n |-> i - 1]

scalar(input) ==
    LET result == reduce_dims(input, range(Len(input)), FALSE)
    IN  IF result.err = "" /\ result.v # <<>> THEN ShapeRaise("AssertionError")
        ELSE result

\* sorted(dims) == list(range(len(dims))), and no axis twice.
IsPermutation(dims) ==
    \A k \in 0..(Len(dims) - 1) : Cardinality({i \in DOMAIN dims : dims[i] = k}) = 1

\* [pair[0] for pair in sorted(enumerate(dims), key=lambda pair: pair[1])]:
\* the k-th entry is the position at which dims holds k.
scattered_dims(dims) ==
    [k \in 1..Len(dims) |-> (CHOOSE i \in DOMAIN dims : dims[i] = k - 1) - 1]

\* Variant: the sizes zipped against dims rather than against scattered_dims.
permute_inverse(input, dims) ==
    IF Len(input) # Len(dims) THEN ShapeRaise("TypeError")
    ELSE IF ~IsPermutation(dims) THEN ShapeRaise("ValueError")
    ELSE ShapeOk([p \in 1..Len(input) |-> input[scattered_dims(dims)[p] + 1]])

\* permute(input, *dims).  paired = sorted(zip(scattered_dims, input)) puts
\* input[j] at position scattered_dims[j].
permute(input, dims) ==
    IF Len(input) # Len(dims) THEN ShapeRaise("TypeError")
    ELSE IF ~IsPermutation(dims) THEN ShapeRaise("ValueError")
    ELSE ShapeOk([p \in 1..Len(input) |->
                     input[CHOOSE j \in DOMAIN input : scattered_dims(dims)[j] = p - 1]])

\* The batched tail of matmul (lines 206-218), on the aligned tuples.
matmul_batched(input, other) ==
    LET p == prepends(input, other)
        a == p[1]
        b == p[2]
        n == Len(a)
    IN  IF \E i \in 1..(n - 2) : ~compatible(a[i], b[i], TRUE)
        THEN ShapeRaise("ValueError")
        ELSE IF a[n] # b[n - 1] THEN ShapeRaise("ValueError")
        ELSE ShapeOk([i \in 1..(n - 2) |-> Max(a[i], b[i])] \o <<a[n - 1], b[n]>>)

matmul(input, other) ==
    LET li == Len(input)
        lo == Len(other)
    IN  IF li = 0 \/ lo = 0 THEN ShapeRaise("ValueError")
        ELSE IF li = 1 /\ lo = 1
             THEN IF input[1] # other[1] THEN ShapeRaise("ValueError")
                  ELSE ShapeOk(<<>>)
        ELSE IF li = 2 /\ lo = 2
             THEN IF input[2] # other[1] THEN ShapeRaise("ValueError")
                  ELSE ShapeOk(<<input[1], other[2]>>)
        ELSE IF li = 1 /\ TupleEqualsInt(other, 2)
             THEN IF input[1] # other[1] THEN ShapeRaise("ValueError")
                  ELSE ShapeOk(<<other[2]>>)
        ELSE IF li = 2 /\ TupleEqualsInt(other, 1)
             THEN IF input[2] # other[1] THEN ShapeRaise("ValueError")
                  ELSE ShapeOk(<<input[1]>>)
        ELSE matmul_batched(input, other)

\* NeverImplementedError.raise_error, the SHAPE_OPS entry of "__floordiv__".
raise_error == ShapeRaise("NeverImplementedError")

(***************************************************************************)
(* The host library's tensors (torch.Tensor): a shape and the elements in  *)
(* row-major order.  Only what the graph needs of them: elementwise        *)
(* operations with broadcasting, matrix product, slicing of the first axis.*)
(***************************************************************************)
RECURSIVE Prod(_)
Prod(s) == IF s = <<>> THEN 1 ELSE Head(s) * Prod(Tail(s))

RECURSIVE SumSeq(_)
SumSeq(s) == IF s = <<>> THEN 0 ELSE Head(s) + SumSeq(Tail(s))

Tensor(shape, data) == [shape |-> shape, data |-> data]
NoTensor == [shape |-> <<>>, data |-> <<>>]

HostOk(t) == [err |-> "", t |-> t]
HostRaise(e) == [err |-> e, t |-> NoTensor]

\* The stride of axis i of a row-major tensor of the given shape.
Stride(shape, i) == Prod(SubSeq(shape, i + 1, Len(shape)))

\* Element of t that broadcasting puts at flat position k (from 0) of a
\* result of shape rs.
BroadcastElem(t, rs, k) ==
    LET n == Len(rs)
        m == Len(t.shape)
        idx(j) == IF t.shape[j] = 1 THEN 0
                  ELSE (k \div Stride(rs, j + n - m)) % rs[j + n - m]
        flat == SumSeq([j \in 1..m |-> idx(j) * Stride(t.shape, j)])
    IN  t.data[flat + 1]

\* torch's broadcasting of two shapes: right-aligned, sizes equal or 1.
HostBroadcast(sa, sb) ==
    LET n == Max(Len(sa), Len(sb))
        a == Ones(n - Len(sa)) \o sa
        b == Ones(n - Len(sb)) \o sb
    IN  IF \E i \in 1..Len(a) : a[i] # b[i] /\ a[i] # 1 /\ b[i] # 1
        THEN ShapeRaise("RuntimeError")
        ELSE ShapeOk([i \in 1..Len(a) |-> IF a[i] = 1 THEN b[i] ELSE a[i]])

HostElementwise(kind, ta, tb) ==
    LET rs == HostBroadcast(ta.shape, tb.shape)
        f(x, y) == IF kind = "add" THEN x + y ELSE Min(x, y)
    IN  IF rs.err # "" THEN HostRaise(rs.err)
        ELSE HostOk(Tensor(rs.v,
                 [e \in 1..Prod(rs.v) |->
                     f(BroadcastElem(ta, rs.v, e - 1), BroadcastElem(tb, rs.v, e - 1))]))

\* torch.matmul on operands of rank 1 or 2: a vector is a row on the left and
\* a column on the right, and its axis is dropped from the result.
HostMatmul(ta, tb) ==
    LET ra == Len(ta.shape)
        rb == Len(tb.shape)
    IN  IF ra \notin {1, 2} \/ rb \notin {1, 2} THEN HostRaise("RuntimeError")
        ELSE LET m == IF ra = 1 THEN 1 ELSE ta.shape[1]
                 k == ta.shape[ra]
                 k2 == tb.shape[1]
                 n == IF rb = 1 THEN 1 ELSE tb.shape[2]
                 cell(e) == LET i == (e - 1) \div n
                                j == (e - 1) % n
                            IN  SumSeq([l \in 1..k |->
                                    ta.data[i * k + l] * tb.data[(l - 1) * n + j + 1]])
                 shape == (IF ra = 1 THEN <<>> ELSE <<m>>) \o (IF rb = 1 THEN <<>> ELSE <<n>>)
             IN  IF k # k2 THEN HostRaise("RuntimeError")
                 ELSE HostOk(Tensor(shape, [e \in 1..(m * n) |-> cell(e)]))

HostSquare(t) == HostOk(Tensor(t.shape, [e \in 1..Len(t.data) |-> t.data[e] * t.data[e]]))

\* A partial: the slice lo:hi of the first axis, or none.
NoPartial == [none |-> TRUE, lo |-> 0, hi |-> 0]
Partial(lo, hi) == [none |-> FALSE, lo |-> lo, hi |-> hi]

\* data[partial.index]: the rows lo..hi-1 (clamped, as Python slices are); a
\* tensor of rank 0 cannot be indexed.
HostSlice(t, p) ==
    IF Len(t.shape) = 0 THEN HostRaise("IndexError")
    ELSE LET d == t.shape[1]
             lo == Min(p.lo, d)
             hi == Max(lo, Min(p.hi, d))
             row == Prod(Tail(t.shape))
         IN  HostOk(Tensor(<<hi - lo>> \o Tail(t.shape),
                           SubSeq(t.data, lo * row + 1, hi * row)))

(***************************************************************************)
(* Operation names.  A name is the number of its leading underscores and   *)
(* the rest of it, so that str.lstrip("_") is what it does to the name:    *)
(* "__add__" is Name(2, "add__") and strips to "add__", not to "add".      *)
(***************************************************************************)
Name(u, s) == [u |-> u, s |-> s]
lstrip(key) == Name(0, key.s)

\* The host operation a function object stands for.
HostOp(func, ts) ==
    IF func.s \in {"add", "add__"} /\ Len(ts) = 2 THEN HostElementwise("add", ts[1], ts[2])
    ELSE IF func.s = "minimum" /\ Len(ts) = 2 THEN HostElementwise("min", ts[1], ts[2])
    ELSE IF func.s \in {"matmul", "matmul__"} /\ Len(ts) = 2 THEN HostMatmul(ts[1], ts[2])
    ELSE IF func.s = "square" /\ Len(ts) = 1 THEN HostSquare(ts[1])
    ELSE HostRaise("TypeError")

(***************************************************************************)
(* koila/tensors.py: the objects.                                          *)
(*   A LazyTensor is [data, batch]; data is a materialized Tensor or an    *)
(*   Evaluation (by identity); batch is None (<<>>) or an index (<<k>>).   *)
(*   An Evaluation is [func, shape, callback, args]; shape is the Shape    *)
(*   its shape function predicted (the tuple and the metadata's batch);    *)
(*   an argument is a LazyTensor (by identity) or a plain Tensor.          *)
(***************************************************************************)
NoBatch == <<>>
Batch(k) == <<k>>

TensorData(t) == [kind |-> "Tensor", t |-> t, id |-> 0]
EvaluationData(n) == [kind |-> "Evaluation", t |-> NoTensor, id |-> n]

LazyArg(i) == [kind |-> "lazy", ref |-> i, t |-> NoTensor]
TensorArg(t) == [kind |-> "tensor", ref |-> 0, t |-> t]

Shape(value, batch) == [value |-> value, batch |-> batch]

\* LazyTensor.__init__: a LazyTensor argument (data.kind = "LazyTensor", the
\* object in data.lazy) is aliased and batch ignored.
LazyTensor_init(data, batch) ==
    IF data.kind = "LazyTensor"
    THEN [data |-> data.lazy.data, batch |-> data.lazy.batch]
    ELSE [data |-> data, batch |-> batch]

LazyTensorData(lazy) == [kind |-> "LazyTensor", lazy |-> lazy]

\* Evaluation.__init__.  origin records who constructed the node.
Evaluation_init(func, shape, callback, args, origin) ==
    [func |-> func, shape |-> shape, callback |-> callback, args |-> args,
     origin |-> origin]

\* Evaluation.size() / LazyTensor.size() / Tensor.size().
Evaluation_size(n) == nodes[n].shape.value

LazyTensor_size(i) ==
    IF lts[i].data.kind = "Tensor" THEN lts[i].data.t.shape
    ELSE Evaluation_size(lts[i].data.id)

size(arg) == IF arg.kind = "lazy" THEN LazyTensor_size(arg.ref) ELSE arg.t.shape

\* Evaluation.batch()
Evaluation_batch(n) == nodes[n].shape.batch

\* LazyTensor.batch(): the body is the expression statement `self._batch`;
\* nothing is returned, so the call yields None.
LazyTensor_batch(i) == NoBatch

(***************************************************************************)
(* run                                                                     *)
(***************************************************************************)
RunOk(t, calls, log) == [err |-> "", t |-> t, calls |-> calls, log |-> log]
RunRaise(e, calls, log) == [err |-> e, t |-> NoTensor, calls |-> calls, log |-> log]

\* A LazyTensor.run that returned the tensor whole under every partial.
RunTensorWhole(data, partial) == HostOk(data)

\* LazyTensor.run on materialized data (lines 152-156): the tensor, or
\* data[partial.index].
RunTensor(data, partial) ==
    IF partial.none THEN HostOk(data) ELSE HostSlice(data, partial)

\* The callbacks a node may hold: None, or the adapter of PARTIAL_OPS
\* (lambda x: x).
ApplyCallback(callback, result) == result

\* An Evaluation.run without the assertion.
CheckShapeSkipped(shape, result) == HostOk(result)

\* assert self.shape == result.shape
CheckShape(shape, result) ==
    IF shape.value = result.shape THEN HostOk(result) ELSE HostRaise("AssertionError")

RECURSIVE LazyTensor_run(_, _)
RECURSIVE Evaluation_run(_, _)
RECURSIVE run_args(_, _, _)

\* The module-level run(val, partial): only a Runnable is run.
run(val, partial) ==
    IF val.kind = "lazy" THEN LazyTensor_run(val.ref, partial)
    ELSE RunOk(val.t, 0, {})

\* LazyTensor.run on a tensor invokes no host operation and runs no node.
RunTensorResult(r) == [err |-> r.err, t |-> r.t, calls |-> 0, log |-> {}]

LazyTensor_run(i, partial) ==
    IF lts[i].data.kind = "Tensor"
    THEN RunTensorResult(RunTensor(lts[i].data.t, partial))
    ELSE Evaluation_run(lts[i].data.id, partial)

\* [run(arg, partial) for arg in self.args], left to right from args[k]; the
\* first argument that raises ends the evaluation (run_args_first: what the
\* rest does after the first ran as r; run_args_cons: r before the rest).
run_args_cons(r, rest) ==
    [err |-> rest.err, ts |-> <<r.t>> \o rest.ts,
     calls |-> r.calls + rest.calls, log |-> r.log \cup rest.log]

run_args_first(r, args, partial, k) ==
    IF r.err # ""
    THEN [err |-> r.err, ts |-> <<>>, calls |-> r.calls, log |-> r.log]
    ELSE run_args_cons(r, run_args(args, partial, k + 1))

run_args(args, partial, k) ==
    IF k > Len(args) THEN [err |-> "", ts |-> <<>>, calls |-> 0, log |-> {}]
    ELSE run_args_first(run(args[k], partial), args, partial, k)

\* Evaluation.run after the arguments ran (real_args) and the function was
\* applied to them (result): the callback under a partial, the assertion,
\* the return.  calls counts the host operations invoked; log holds, for
\* every node whose run returned, the node and the shape of what it returned.
Evaluation_return(n, real_args, checked) ==
    IF checked.err # "" THEN RunRaise(checked.err, real_args.calls + 1, real_args.log)
    ELSE RunOk(checked.t, real_args.calls + 1,
               real_args.log \cup {[id |-> n, shape |-> checked.t.shape]})

Evaluation_result(n, partial, real_args, result) ==
    IF result.err # "" THEN RunRaise(result.err, real_args.calls + 1, real_args.log)
    ELSE IF ~partial.none /\ nodes[n].callback = "None"
         THEN RunRaise("UnsupportedError", real_args.calls + 1, real_args.log)
    ELSE Evaluation_return(n, real_args,
             CheckShape(nodes[n].shape,
                        IF partial.none THEN result.t
                        ELSE ApplyCallback(nodes[n].callback, result.t)))

Evaluation_apply(n, partial, real_args) ==
    IF real_args.err # "" THEN RunRaise(real_args.err, real_args.calls, real_args.log)
    ELSE Evaluation_result(n, partial, real_args, HostOp(nodes[n].func, real_args.ts))

\* Evaluation.run
Evaluation_run(n, partial) ==
    Evaluation_apply(n, partial, run_args(nodes[n].args, partial, 1))

\* A run that kept its result in the LazyTensor it was called on.
SelfAfterRunCached(i, result) ==
    IF result.err = "" THEN [lts[i] EXCEPT !.data = TensorData(result.t)] ELSE lts[i]

\* What run leaves in the LazyTensor it was called on: nothing is assigned.
SelfAfterRun(i, result) == lts[i]

(***************************************************************************)
(* The dispatch tables.  Of SHAPE_OPS the entries of the operations the    *)
(* model invokes, and a few of their neighbours.                           *)
(***************************************************************************)
EmptyDb == [k \in {} |-> "None"]

CUSTOM_OPS ==
    [method |-> EmptyDb,
     function |-> (Name(0, "min") :> "_min") @@ (Name(0, "max") :> "_max")]

SHAPE_OPS ==
    [method |-> (Name(0, "permute") :> "permute"),
     function |->
        (Name(0, "positive") :> "identity") @@ (Name(0, "neg") :> "identity") @@
        (Name(0, "add") :> "symmetric") @@ (Name(0, "sub") :> "symmetric") @@
        (Name(0, "mul") :> "symmetric") @@ (Name(0, "abs") :> "identity") @@
        (Name(0, "matmul") :> "matmul") @@ (Name(0, "mm") :> "matmul") @@
        (Name(0, "minimum") :> "symmetric") @@ (Name(0, "maximum") :> "symmetric") @@
        (Name(2, "floordiv__") :> "raise_error")]

\* dict.get
get(db, key) == IF key \in DOMAIN db THEN db[key] ELSE "None"

\* A search that finds nothing.
search_none(key, dbs) == "None"

\* MethodFunction._search
search(key, dbs) ==
    LET hits == {i \in 1..Len(dbs) : get(dbs[i], key) # "None"}
    IN  IF hits = {} THEN "None"
        ELSE get(dbs[CHOOSE i \in hits : \A j \in hits : i <= j], key)

\* MethodFunction.lookup
lookup(key, dbs) ==
    LET result == search(key, dbs)
    IN  IF result # "None" THEN result ELSE search(lstrip(key), dbs)

lookup_method(mf, key) == lookup(key, <<mf.method, mf.function>>)
lookup_function(mf, key) == lookup(key, <<mf.function>>)

(***************************************************************************)
(* Building the graph.  The outcome of an operation is an effect: the      *)
(* objects after it, what it returned or raised, and the host operations   *)
(* it invoked.                                                             *)
(***************************************************************************)
Effect(l, n, err, kind, t, ref, calls) ==
    [lts |-> l, nodes |-> n, err |-> err, kind |-> kind, t |-> t, ref |-> ref,
     calls |-> calls, route |-> ""]

Raised(e, calls) == Effect(lts, nodes, e, "", NoTensor, 0, calls)
ReturnedTensor(t, calls) == Effect(lts, nodes, "", "Tensor", t, 0, calls)

\* The shape function applied to the operands: the tuple of each operand's
\* size goes to the function of shapes.py.
ApplyShape(shape_func, args) ==
    IF shape_func = "raise_error" THEN raise_error
    ELSE IF shape_func = "identity" /\ Len(args) >= 1 THEN identity(size(args[1]))
    ELSE IF shape_func = "symmetric" /\ Len(args) >= 2
         THEN symmetric(size(args[1]), size(args[2]))
    ELSE IF shape_func = "matmul" /\ Len(args) >= 2
         THEN matmul(size(args[1]), size(args[2]))
    ELSE ShapeRaise("TypeError")

\* The batch index in the metadata of a predicted Shape.
PredictedBatch(args) == NoBatch

\* lazy(arg) for arg in args: a plain Tensor gets a LazyTensor of its own.
lazy_cons(arg, rest) == [lts |-> rest.lts, args |-> <<arg>> \o rest.args]

RECURSIVE lazy_all(_, _)
lazy_all(args, heap) ==
    IF args = <<>> THEN [lts |-> heap, args |-> <<>>]
    ELSE IF Head(args).kind = "tensor"
    THEN lazy_cons(LazyArg(Len(heap) + 1),
                   lazy_all(Tail(args),
                            Append(heap, LazyTensor_init(TensorData(Head(args).t), NoBatch))))
    ELSE lazy_cons(Head(args), lazy_all(Tail(args), heap))

\* A LazyFunction that gave its node a callback.
LazyFunction_node_adapted(func, shape, wrapped) ==
    Effect(Append(wrapped.lts,
                  LazyTensor_init(
                      LazyTensorData(
                          LazyTensor_init(EvaluationData(Len(nodes) + 1), NoBatch)),
                      NoBatch)),
           Append(nodes,
                  Evaluation_init(func, shape, "identity", wrapped.args, "LazyFunction")),
           "", "LazyTensor", NoTensor, Len(wrapped.lts) + 1, 0)

\* LazyFunction.__call__, and the LazyTensor lazy_forward makes of its result.
LazyFunction_node(func, shape, wrapped) ==
    Effect(Append(wrapped.lts,
                  LazyTensor_init(
                      LazyTensorData(
                          LazyTensor_init(EvaluationData(Len(nodes) + 1), NoBatch)),
                      NoBatch)),
           Append(nodes,
                  Evaluation_init(func, shape, "None", wrapped.args, "LazyFunction")),
           "", "LazyTensor", NoTensor, Len(wrapped.lts) + 1, 0)

LazyFunction_shaped(func, shape, args) ==
    IF shape.err # "" THEN Raised(shape.err, 0)
    ELSE LazyFunction_node(func, Shape(shape.v, PredictedBatch(args)), lazy_all(args, lts))

LazyFunction_call(func, shape_func, args) ==
    LazyFunction_shaped(func, ApplyShape(shape_func, args), args)

\* A lazy_forward that deferred in both grad modes, and one that deferred in
\* neither.
DefersAlways(enabled) == TRUE

DefersNever(enabled) == FALSE

\* `if torch.is_grad_enabled()` of lazy_forward.
Defers(enabled) == enabled

\* What a host operation that ended as r hands back, calls host operations
\* having been invoked before it.
HostReturn(r, calls) ==
    IF r.err # "" THEN Raised(r.err, calls + 1) ELSE ReturnedTensor(r.t, calls + 1)

\* The eager route of the hook after the arguments ran (real): func(*args).
EagerCall(func, real) ==
    IF real.err # "" THEN Raised(real.err, real.calls)
    ELSE HostReturn(HostOp(func, real.ts), real.calls)

Routed(eff, route) == [eff EXCEPT !.route = route]

RECURSIVE lazy_forward(_, _, _, _)
RECURSIVE HostCall(_, _, _)
RECURSIVE torch_function(_, _, _, _)
RECURSIVE min_impl(_, _)

\* func(*args) where an argument may be a LazyTensor: the host library
\* computes on plain tensors and hands any call with a LazyTensor among
\* its arguments to LazyTensor.__torch_function__.
HostCall(func, args, depth) ==
    IF \A k \in 1..Len(args) : args[k].kind = "tensor"
    THEN HostReturn(HostOp(func, [k \in 1..Len(args) |-> args[k].t]), 0)
    ELSE torch_function(func, args, TRUE, depth + 1)

lazy_forward(func, shape_func, args, depth) ==
    IF Defers(grad)
    THEN LazyFunction_call(func, shape_func, args)
    ELSE HostCall(func, args, depth)

\* _min(input, other) with other a Tensor or LazyTensor.
min_impl(args, depth) ==
    lazy_forward(Name(0, "minimum"), "symmetric", args, depth)

\* LazyTensor.__torch_function__.  depth counts the dispatches nested in one
\* another; past RecursionLimit the interpreter raises RecursionError.
torch_function(func, args, types_ok, depth) ==
    IF depth > RecursionLimit THEN Raised("RecursionError", 0)
    ELSE IF ~types_ok THEN Effect(lts, nodes, "", "NotImplemented", NoTensor, 0, 0)
    ELSE IF lookup_function(CUSTOM_OPS, func) # "None"
         THEN Routed(min_impl(args, depth), "custom")
    ELSE IF lookup_function(SHAPE_OPS, func) # "None"
         THEN Routed(lazy_forward(func, lookup_function(SHAPE_OPS, func), args, depth),
                     "shape")
    ELSE Routed(EagerCall(func, run_args(args, NoPartial, 1)), "eager")

\* The eager route of __getattr__ after self ran (real): method(run(self),
\* *others).
MethodCalled(real, called) == [called EXCEPT !.calls = @ + real.calls]

MethodCall(name, real, others) ==
    IF real.err # "" THEN Raised(real.err, real.calls)
    ELSE MethodCalled(real, HostCall(name, <<TensorArg(real.t)>> \o others, 0))

\* LazyTensor.__getattr__(name) and the call of what it returns.
LazyTensor_getattr(i, name, others) ==
    IF lookup_method(CUSTOM_OPS, name) # "None"
    THEN Routed(min_impl(<<LazyArg(i)>> \o others, 0), "custom")
    ELSE IF lookup_method(SHAPE_OPS, name) # "None"
    THEN Routed(lazy_forward(name, lookup_method(SHAPE_OPS, name),
                             <<LazyArg(i)>> \o others, 0),
                "shape")
    ELSE Routed(MethodCall(name, run(LazyArg(i), NoPartial), others), "eager")

\* The operators.
LazyTensor_add(i, other) ==
    lazy_forward(Name(2, "add__"), "symmetric", <<LazyArg(i), LazyArg(other)>>, 0)

\* A __floordiv__ forwarded as the other operators are.
LazyTensor_floordiv_forwarded(i, other) ==
    lazy_forward(Name(2, "floordiv__"), "symmetric", <<LazyArg(i), LazyArg(other)>>, 0)

\* del other; raise NeverImplementedError
LazyTensor_floordiv(i, other) == Raised("NeverImplementedError", 0)
LazyTensor_rfloordiv(i, other) == Raised("NeverImplementedError", 0)
LazyTensor_divmod(i, other) == Raised("NeverImplementedError", 0)
LazyTensor_rdivmod(i, other) == Raised("NeverImplementedError", 0)

NoCall ==
    [fn |-> "", input |-> <<>>, other |-> <<>>, dims |-> <<>>, keepdim |-> FALSE,
     out |-> ShapeNone]

NoLast == [op |-> ""]

(***************************************************************************)
(* Spec: the inputs.                                                       *)
(***************************************************************************)
T_one == Tensor(<<>>, <<1>>)
T_two == Tensor(<<>>, <<2>>)
T_vec == Tensor(<<2>>, <<1, 2>>)

\* LazyTensor(tensor, batch)
Leaves ==
    {<<T_one, NoBatch>>, <<T_two, NoBatch>>, <<T_vec, Batch(0)>>}

Partials == {NoPartial, Partial(0, 1), Partial(0, 2)}

\* LazyTensor(Evaluation(torch.square, shape, callback, arg)), constructed
\* directly.
DirectShapes == {Shape(<<2>>, Batch(0))}
Callbacks == {"None", "identity"}

\* Names reaching __getattr__ and __torch_function__, and their operand counts.
AttrNames == {Name(0, "matmul"), Name(0, "min")}
HookNames == AttrNames \cup {Name(2, "add__"), Name(2, "floordiv__")}

Refs == 1..Len(lts)

(***************************************************************************)
(* Spec: the operations.  Each records itself in last: the operation, its  *)
(* receiver, the grad mode it ran under, how it ended (err, kind), the     *)
(* LazyTensor it returned (ref), the host operations it invoked (calls),   *)
(* the table it resolved through (route), the nodes it constructed         *)
(* (created); for run also the partial, the tensor returned (t) and the    *)
(* nodes that returned (log); for batch the index returned (opt).          *)
(***************************************************************************)
Last(op, name, args, partial, eff, t, log, opt) ==
    [op |-> op, name |-> name, args |-> args, partial |-> partial, grad |-> grad,
     err |-> eff.err, kind |-> eff.kind, t |-> t, ref |-> eff.ref,
     calls |-> eff.calls, route |-> eff.route,
     created |-> Len(eff.nodes) - Len(nodes), log |-> log, opt |-> opt]

NoName == Name(0, "")
Nothing == Effect(lts, nodes, "", "", NoTensor, 0, 0)

Commit(op, name, args, eff) ==
    /\ Len(eff.lts) <= MaxLazy
    /\ Len(eff.nodes) <= MaxNodes
    /\ lts' = eff.lts
    /\ nodes' = eff.nodes
    /\ last' = Last(op, name, args, NoPartial, eff, NoTensor, {}, NoBatch)
    /\ UNCHANGED <<shcall, grad>>

\* torch.set_grad_enabled(mode) / torch.no_grad()
Call_set_grad_enabled(mode) ==
    /\ grad' = mode
    /\ last' = Last("set_grad_enabled", NoName, <<>>, NoPartial, Nothing, NoTensor, {}, NoBatch)
    /\ UNCHANGED <<shcall, lts, nodes>>

\* LazyTensor(tensor, batch)
Call_LazyTensor(tensor, batch) ==
    LET new == Append(lts, LazyTensor_init(TensorData(tensor), batch))
    IN  Commit("LazyTensor", NoName, <<>>,
               Effect(new, nodes, "", "LazyTensor", NoTensor, Len(new), 0))

\* LazyTensor(Evaluation(func, shape, callback, arg))
Call_Evaluation(func, shape, callback, args) ==
    LET nodes2 == Append(nodes, Evaluation_init(func, shape, callback, args, "Evaluation"))
        new == Append(lts, LazyTensor_init(EvaluationData(Len(nodes2)), NoBatch))
    IN  Commit("Evaluation", NoName, <<>>,
               Effect(new, nodes2, "", "LazyTensor", NoTensor, Len(new), 0))

Call_add(i, other) ==
    Commit("__add__", NoName, <<i, other>>, LazyTensor_add(i, other))

Call_floordiv(op, i, other) ==
    Commit(op, NoName, <<>>,
           CASE op = "__floordiv__" -> LazyTensor_floordiv(i, other)
             [] op = "__rfloordiv__" -> LazyTensor_rfloordiv(i, other)
             [] op = "__divmod__" -> LazyTensor_divmod(i, other)
             [] OTHER -> LazyTensor_rdivmod(i, other))

Call_getattr(i, name, others) ==
    Commit("__getattr__", name, <<>>, LazyTensor_getattr(i, name, others))

Call_torch_function(func, args, types_ok) ==
    Commit("__torch_function__", func, <<>>, torch_function(func, args, types_ok, 1))

\* run(val, partial) on a LazyTensor
Ran(i, partial, r) ==
    /\ lts' = [lts EXCEPT ![i] = SelfAfterRun(i, r)]
    /\ nodes' = nodes
    /\ last' = Last("run", NoName, <<i>>, partial,
                    Effect(lts, nodes, r.err, IF r.err = "" THEN "Tensor" ELSE "",
                           NoTensor, 0, r.calls),
                    r.t, r.log, NoBatch)
    /\ UNCHANGED <<shcall, grad>>

Call_run(i, partial) == Ran(i, partial, LazyTensor_run(i, partial))

Call_batch(i) ==
    /\ last' = Last("LazyTensor.batch", NoName, <<i>>, NoPartial, Nothing, NoTensor, {},
                    LazyTensor_batch(i))
    /\ UNCHANGED <<shcall, grad, lts, nodes>>

Call_Evaluation_batch(n) ==
    /\ last' = Last("Evaluation.batch", NoName, <<n>>, NoPartial, Nothing, NoTensor, {},
                    Evaluation_batch(n))
    /\ UNCHANGED <<shcall, grad, lts, nodes>>

Init ==
    /\ shcall = NoCall
    /\ grad = TRUE
    /\ lts = <<>>
    /\ nodes = <<>>
    /\ last = NoLast

Next ==
    \/ \E mode \in BOOLEAN : Call_set_grad_enabled(mode)
    \/ \E leaf \in Leaves : Call_LazyTensor(leaf[1], leaf[2])
    \/ \E shape \in DirectShapes, callback \in Callbacks,
          arg \in {LazyArg(i) : i \in Refs} \cup {TensorArg(T_vec)} :
           Call_Evaluation(Name(0, "square"), shape, callback, <<arg>>)
    \/ \E i \in Refs, j \in Refs : Call_add(i, j)
    \/ \E op \in {"__floordiv__", "__rfloordiv__", "__divmod__", "__rdivmod__"},
          i \in Refs : Call_floordiv(op, i, i)
    \/ \E i \in Refs, name \in AttrNames : Call_getattr(i, name, <<LazyArg(i)>>)
    \/ \E func \in HookNames, i \in Refs :
           Call_torch_function(func, <<LazyArg(i), LazyArg(i)>>, TRUE)
    \/ \E i \in Refs : Call_torch_function(Name(0, "matmul"), <<LazyArg(i), LazyArg(i)>>, FALSE)
    \/ \E i \in Refs, partial \in Partials : Call_run(i, partial)
    \/ \E i \in Refs : Call_batch(i)
    \/ \E n \in 1..Len(nodes) : Call_Evaluation_batch(n)

Spec == Init /\ [][Next]_vars

(***************************************************************************)
(* SpecShapes: the shape functions applied to every pair of shape tuples   *)
(* of rank 0..MaxRank with sizes 1..MaxDim.  The initial state holds the   *)
(* arguments of the call, the step makes it.  A call that takes axes takes *)
(* the second tuple as axis indices, which count from 0 (Axes).            *)
(***************************************************************************)
ShapeTuples == UNION {[1..r -> 1..MaxDim] : r \in 0..MaxRank}

Axes(t) == [i \in 1..Len(t) |-> t[i] - 1]

Call_shapes_matmul ==
    /\ shcall.fn = ""
    /\ shcall' = [shcall EXCEPT !.fn = "matmul", !.out = matmul(shcall.input, shcall.other)]
    /\ UNCHANGED <<grad, lts, nodes, last>>

\* shapes.reduce_dims(input, dim, keepdim)
Call_shapes_reduce_dims(keepdim) ==
    /\ shcall.fn = ""
    /\ shcall' = [shcall EXCEPT !.fn = "reduce_dims", !.dims = Axes(shcall.other),
                                !.keepdim = keepdim,
                                !.out = reduce_dims(shcall.input, Axes(shcall.other), keepdim)]
    /\ UNCHANGED <<grad, lts, nodes, last>>

\* shapes.scalar(input)
Call_shapes_scalar ==
    /\ shcall.fn = ""
    /\ shcall' = [shcall EXCEPT !.fn = "scalar", !.out = scalar(shcall.input)]
    /\ UNCHANGED <<grad, lts, nodes, last>>

\* shapes.permute(input, *dims)
Call_shapes_permute ==
    /\ shcall.fn = ""
    /\ shcall' = [shcall EXCEPT !.fn = "permute", !.dims = Axes(shcall.other),
                                !.out = permute(shcall.input, Axes(shcall.other))]
    /\ UNCHANGED <<grad, lts, nodes, last>>

InitShapes ==
    /\ shcall \in {[NoCall EXCEPT !.input = a, !.other = b] :
                      a \in ShapeTuples, b \in ShapeTuples}
    /\ grad = TRUE
    /\ lts = <<>>
    /\ nodes = <<>>
    /\ last = NoLast

NextShapes ==
    \/ Call_shapes_matmul
    \/ \E keepdim \in BOOLEAN : Call_shapes_reduce_dims(keepdim)
    \/ Call_shapes_scalar
    \/ Call_shapes_permute

SpecShapes == InitShapes /\ [][NextShapes]_vars

(***************************************************************************)
(* The reference matrix-multiply shape rule for operands of rank 1 or 2.   *)
(***************************************************************************)
RefMatmul(a, b) ==
    LET ka == a[Len(a)]
        kb == b[1]
    IN  IF ka # kb THEN ShapeRaise("ValueError")
        ELSE IF Len(a) = 1 /\ Len(b) = 1 THEN ShapeOk(<<>>)
        ELSE IF Len(a) = 2 /\ Len(b) = 2 THEN ShapeOk(<<a[1], b[2]>>)
        ELSE IF Len(a) = 2 /\ Len(b) = 1 THEN ShapeOk(<<a[1]>>)
        ELSE ShapeOk(<<b[2]>>)

\* C10: for operands of rank 1 or 2, shapes.matmul returns the shape of the
\* reference rule ((k,)(k,) -> (), (m,k)(k,n) -> (m,n), (m,k)(k,) -> (m,),
\* (k,)(k,n) -> (n,)) and raises ValueError when the inner sizes differ.
C10_MatmulAgreesWithReference ==
    (shcall.fn = "matmul" /\ Len(shcall.input) \in {1, 2} /\ Len(shcall.other) \in {1, 2})
        => shcall.out = RefMatmul(shcall.input, shcall.other)

(***************************************************************************)
(* Properties of Spec.                                                     *)
(***************************************************************************)
IsLeaf(i) == i \in DOMAIN lts /\ lts[i].data.kind = "Tensor"
IsScalarLeaf(i) == IsLeaf(i) /\ lts[i].data.t.shape = <<>>
Number(i) == lts[i].data.t.data[1]

AddedScalars ==
    /\ last.op = "__add__"
    /\ last.grad
    /\ IsScalarLeaf(last.args[1])
    /\ IsScalarLeaf(last.args[2])

\* C1: with grad enabled, a + b on two LazyTensors that each wrap a rank-0
\* tensor invokes no host operation and returns a LazyTensor whose data is a
\* new Evaluation; run() on it returns the rank-0 tensor of the sum.
C1_AddDefersThenRunAdds ==
    AddedScalars =>
        /\ last.err = ""
        /\ last.kind = "LazyTensor"
        /\ last.calls = 0
        /\ last.created = 1
        /\ lts[last.ref].data = EvaluationData(Len(nodes))
        /\ LazyTensor_run(last.ref, NoPartial).err = ""
        /\ LazyTensor_run(last.ref, NoPartial).t =
               Tensor(<<>>, <<Number(last.args[1]) + Number(last.args[2])>>)

\* 1 + 2 was added and is deferred; its run gives 3.
C1_OnePlusTwoDeferred ==
    /\ AddedScalars
    /\ Number(last.args[1]) = 1
    /\ Number(last.args[2]) = 2
    /\ lts[last.ref].data.kind = "Evaluation"
    /\ LazyTensor_run(last.ref, NoPartial).t = Tensor(<<>>, <<3>>)

FullRun == last.op = "run" /\ last.partial.none

\* C2: in a run without partial, every Evaluation that returns, the root and
\* the operands' nodes alike, returns a tensor of the shape the node holds;
\* a run that does not return ends in AssertionError.
C2_FullRunShapesAsPredicted ==
    FullRun =>
        /\ \A e \in last.log : e.shape = nodes[e.id].shape.value
        /\ last.err \in {"", "AssertionError"}
        /\ (last.err = "" /\ ~IsLeaf(last.args[1]))
               => /\ last.t.shape = LazyTensor_size(last.args[1])
                  /\ \E e \in last.log : e.id = lts[last.args[1]].data.id

\* A run without partial returned through a node and the node of one of its
\* operands.
C2_NestedNodesRan ==
    /\ FullRun
    /\ last.err = ""
    /\ \E e \in last.log, f \in last.log :
           /\ e.id = lts[last.args[1]].data.id
           /\ f.id # e.id
           /\ \E k \in DOMAIN nodes[e.id].args :
                  /\ nodes[e.id].args[k].kind = "lazy"
                  /\ lts[nodes[e.id].args[k].ref].data = EvaluationData(f.id)

ThroughLazyForward ==
    \/ last.op = "__add__"
    \/ last.op \in {"__getattr__", "__torch_function__"} /\ last.route \in {"custom", "shape"}

PartialRun == last.op = "run" /\ ~last.partial.none

\* C4: a run with a partial on a LazyTensor over an Evaluation whose full
\* run returns either returns the partial's slice of the full result or
\* raises UnsupportedError; it ends in no other way.
C4_PartialRunSliceOrUnsupported ==
    (/\ PartialRun
     /\ ~IsLeaf(last.args[1])
     /\ LazyTensor_run(last.args[1], NoPartial).err = "")
        => \/ last.err = "UnsupportedError"
           \/ /\ last.err = ""
              /\ HostOk(last.t) = HostSlice(LazyTensor_run(last.args[1], NoPartial).t, last.partial)

\* C5 as stated: run on a LazyTensor over a tensor returns that tensor for
\* every partial.
C5_RunOnTensorIgnoresPartial ==
    (last.op = "run" /\ IsLeaf(last.args[1]))
        => /\ last.err = ""
           /\ last.t = lts[last.args[1]].data.t

\* C5: run on a LazyTensor over a tensor invokes no host operation; without
\* a partial it returns the tensor, with a partial it returns
\* data[partial.index], which raises IndexError on a tensor of rank 0.
C5_RunOnTensorSlicesByPartial ==
    (last.op = "run" /\ IsLeaf(last.args[1]))
        => LET data == lts[last.args[1]].data.t
               d == data.shape[1]
               lo == Min(last.partial.lo, d)
               hi == Max(lo, Min(last.partial.hi, d))
               row == Prod(Tail(data.shape))
           IN  /\ last.calls = 0
               /\ last.partial.none => (last.err = "" /\ last.t = data)
               /\ (~last.partial.none /\ data.shape = <<>>) => last.err = "IndexError"
               /\ (~last.partial.none /\ data.shape # <<>>)
                      => /\ last.err = ""
                         /\ last.t.shape = <<hi - lo>> \o Tail(data.shape)
                         /\ last.t.data = SubSeq(data.data, lo * row + 1, hi * row)

\* A run with a partial on a LazyTensor over a tensor returned a proper slice.
C5_TensorSliced ==
    /\ PartialRun
    /\ IsLeaf(last.args[1])
    /\ last.err = ""
    /\ Len(last.t.data) < Len(lts[last.args[1]].data.t.data)

\* C6: a run, with or without partial, returning or raising, leaves every
\* LazyTensor's data and batch and every Evaluation's func, shape, callback
\* and args as they were.
C6_RunChangesNothing ==
    [][last'.op = "run" => (lts' = lts /\ nodes' = nodes)]_vars

\* Runs were made on a LazyTensor over an Evaluation, and its data is still
\* that Evaluation.
C6_RanDeferred ==
    /\ last.op = "run"
    /\ last.calls >= 1
    /\ lts[last.args[1]].data.kind = "Evaluation"

FloorOps == {"__floordiv__", "__rfloordiv__", "__divmod__", "__rdivmod__"}

\* C7: __floordiv__, __rfloordiv__, __divmod__ and __rdivmod__ raise
\* NeverImplementedError in both grad modes, construct no Evaluation, leave
\* every LazyTensor as it was and invoke no host operation.
C7_FloorDivNeverImplemented ==
    [][last'.op \in FloorOps =>
          /\ last'.err = "NeverImplementedError"
          /\ last'.calls = 0
          /\ last'.created = 0
          /\ lts' = lts
          /\ nodes' = nodes]_vars

\* Floor division was applied to a LazyTensor over an Evaluation with grad
\* enabled and raised.
C7_FloorDivRaised ==
    /\ last.op = "__floordiv__"
    /\ last.grad
    /\ last.err = "NeverImplementedError"
    /\ nodes # <<>>

Resolved ==
    /\ last.op \in {"__getattr__", "__torch_function__"}
    /\ last.kind # "NotImplemented"

\* The name, or the name without its leading underscores, is a key of a table
\* the route consults: method and function for __getattr__, function for the
\* hook.
InTable(mf) ==
    LET keys == IF last.op = "__getattr__" THEN DOMAIN mf.method \cup DOMAIN mf.function
                ELSE DOMAIN mf.function
    IN  last.name \in keys \/ Name(0, last.name.s) \in keys

\* C8 as stated: a name in CUSTOM_OPS takes the custom implementation; else a
\* name in SHAPE_OPS builds exactly one Evaluation; else the operands are run
\* and the host operation invoked.
C8_ResolutionBuildsOneNode ==
    Resolved =>
        IF InTable(CUSTOM_OPS) THEN last.route = "custom"
        ELSE IF InTable(SHAPE_OPS) THEN last.route = "shape" /\ last.created = 1
        ELSE last.route = "eager" /\ last.created = 0 /\ (last.err = "" => last.calls >= 1)

\* C8: a name in CUSTOM_OPS takes the custom implementation; else a name in
\* SHAPE_OPS goes through lazy_forward, which builds one Evaluation when grad
\* is enabled and the shape function returns, and none otherwise; else the
\* operands are run and the host operation invoked.
C8_ResolutionPriority ==
    Resolved =>
        IF InTable(CUSTOM_OPS) THEN last.route = "custom"
        ELSE IF InTable(SHAPE_OPS)
             THEN /\ last.route = "shape"
                  /\ last.created = (IF last.grad /\ last.err = "" THEN 1 ELSE 0)
        ELSE last.route = "eager" /\ last.created = 0 /\ (last.err = "" => last.calls >= 1)

\* The hook resolved a name of SHAPE_OPS with grad enabled and one Evaluation
\* was built.
C8_ShapeRouteDeferred ==
    /\ last.op = "__torch_function__"
    /\ last.route = "shape"
    /\ last.grad
    /\ last.created = 1

\* C9: LazyTensor.batch() returns the batch index the LazyTensor holds, and
\* Evaluation.batch() the batch index of the node's shape metadata.
C9_BatchReportsDeclared ==
    /\ last.op = "LazyTensor.batch" => last.opt = lts[last.args[1]].batch
    /\ last.op = "Evaluation.batch" => last.opt = nodes[last.args[1]].shape.batch

\* C13: an operation that reaches the hook under the name __floordiv__
\* raises NeverImplementedError in both grad modes, and the host operation is
\* not invoked.
C13_HookFloorDivNeverImplemented ==
    (/\ last.op = "__torch_function__"
     /\ last.name = Name(2, "floordiv__")
     /\ last.kind # "NotImplemented")
        => /\ last.err = "NeverImplementedError"
           /\ last.calls = 0

\* The LazyTensor is over a node that LazyFunction built.
OverDeferredNode(i) ==
    /\ lts[i].data.kind = "Evaluation"
    /\ nodes[lts[i].data.id].origin = "LazyFunction"

\* How a partial run of node n ends when the node has no callback: with the
\* error of its operands' run under the partial if there is one, else with
\* the error of its operation on what they returned if there is one, else
\* with UnsupportedError, the operation having been invoked.
EndsUnsupported(n, partial, real_args) ==
    IF real_args.err # ""
    THEN last.err = real_args.err /\ last.calls = real_args.calls
    ELSE /\ last.calls = real_args.calls + 1
         /\ last.err = IF HostOp(nodes[n].func, real_args.ts).err # ""
                       THEN HostOp(nodes[n].func, real_args.ts).err
                       ELSE "UnsupportedError"

\* C14: a node built by lazy_forward / LazyFunction has callback None, so a
\* run with a partial on a LazyTensor over such a node returns no value: it
\* raises UnsupportedError unless an operand's run or the operation fails
\* first, and raises it once the operands ran with the partial and the
\* operation was invoked on them.
C14_DeferredNodeHasNoCallback ==
    /\ \A n \in 1..Len(nodes) :
           nodes[n].origin = "LazyFunction" => nodes[n].callback = "None"
    /\ (PartialRun /\ OverDeferredNode(last.args[1])) =>
           /\ last.err # ""
           /\ EndsUnsupported(lts[last.args[1]].data.id, last.partial,
                              run_args(nodes[lts[last.args[1]].data.id].args,
                                       last.partial, 1))

\* A partial run of a deferred sum of two batched leaves sliced both, added
\* the slices and raised UnsupportedError.
C14_PartialRunRaisedAfterAdding ==
    /\ PartialRun
    /\ OverDeferredNode(last.args[1])
    /\ nodes[lts[last.args[1]].data.id].func = Name(2, "add__")
    /\ \A k \in 1..2 : IsLeaf(nodes[lts[last.args[1]].data.id].args[k].ref)
    /\ last.err = "UnsupportedError"
    /\ last.calls = 1

(***************************************************************************)
(* Properties of SpecShapes: reduce_dims, permute.                         *)
(***************************************************************************)
\* s without the axes of D, the others in order.
RECURSIVE WithoutAxes(_, _, _)
WithoutAxes(s, D, i) ==
    IF i > Len(s) THEN <<>>
    ELSE (IF (i - 1) \in D THEN <<>> ELSE <<s[i]>>) \o WithoutAxes(s, D, i + 1)

RefReduce(s, D, keepdim) ==
    IF keepdim THEN ShapeOk([i \in 1..Len(s) |-> IF (i - 1) \in D THEN 1 ELSE s[i]])
    ELSE ShapeOk(WithoutAxes(s, D, 1))

AxisSet(dims) == {dims[i] : i \in DOMAIN dims}

\* C11: for axes D within 0..n-1, reduce_dims(s, D, keepdim=False) returns s
\* without the axes of D, the other sizes kept in order, and with
\* keepdim=True s with the axes of D set to 1; the axes are positions, whatever
\* the sizes of s are.
C11_ReduceDimsRemovesAxes ==
    (/\ shcall.fn = "reduce_dims"
     /\ shcall.dims # <<>>
     /\ AxisSet(shcall.dims) \subseteq 0..(Len(shcall.input) - 1))
        => shcall.out = RefReduce(shcall.input, AxisSet(shcall.dims), shcall.keepdim)

\* The permutation that undoes dims.
InversePermutation(dims) ==
    [k \in 1..Len(dims) |-> (CHOOSE i \in DOMAIN dims : dims[i] = k - 1) - 1]

\* C12: for s of rank n >= 1, permute(s, *dims) with dims a permutation of
\* 0..n-1 returns the shape whose axis i has size s[dims[i]], and permuting
\* that by the inverse of dims returns s; dims of another length raises
\* TypeError, and dims of length n that is no permutation raises ValueError.
C12_PermuteReordersAxes ==
    (shcall.fn = "permute" /\ Len(shcall.input) >= 1) =>
        LET s == shcall.input
            dims == shcall.dims
        IN  IF Len(dims) # Len(s) THEN shcall.out = ShapeRaise("TypeError")
            ELSE IF AxisSet(dims) # 0..(Len(s) - 1) THEN shcall.out = ShapeRaise("ValueError")
            ELSE /\ shcall.out = ShapeOk([i \in 1..Len(s) |-> s[dims[i] + 1]])
                 /\ permute(shcall.out.v, InversePermutation(dims)) = ShapeOk(s)

C12_ThreeAxesRotated ==
    /\ shcall.fn = "permute"
    /\ shcall.input = <<1, 2, 3>>
    /\ shcall.dims = <<2, 0, 1>>
    /\ shcall.out = ShapeOk(<<3, 1, 2>>)

=============================================================================
